---- MODULE Spec2Model ----
(***************************************************************************)
(* A model of quote-educator's transducer (package main, the most complete *)
(* variant of the source): the cursor over the decoded input, the output   *)
(* buffer, the dispatch table whatDo, and the mutually recursive parselets *)
(* with their Go call stack.                                               *)
(*                                                                         *)
(* A rune is a one-character string; the four curly quote marks, the       *)
(* backtick (BT), the zero rune, U+FFFD and an undecodable input byte are  *)
(* named tokens.  Offsets count runes: every needle the code compares      *)
(* bytewise (PeekEquals) is ASCII, and so is the hyphen whose byte offset  *)
(* atHyphen tests, so on the inputs modelled a rune offset and a byte      *)
(* offset select the same positions.                                       *)
(***************************************************************************)
EXTENDS Integers, Sequences, FiniteSets, TLC

VARIABLES input, off, out, stack, codeElementsEntered, err, result, delivered, call

vars == <<input, off, out, stack, codeElementsEntered, err, result, delivered, call>>

-----------------------------------------------------------------------------
(* Runes *)

BS == "\\"
DQ == "\""
SQ == "'"
LDQ == "LDQ"
RDQ == "RDQ"
LSQ == "LSQ"
RSQ == "RSQ"
NL == "\n"
TAB == "\t"
SP == " "
BT == "BT"
LT == "<"
GT == ">"
NUL == "NUL"
BAD == "BAD"
RuneError == "FFFD"

Letters == {"a", "b", "c", "d", "e", "n", "o", "u", "y"}

Rune ==
  Letters \cup {BS, DQ, SQ, LDQ, RDQ, LSQ, RSQ, NL, TAB, SP, BT, LT, GT,
                "-", "/", "=", ")", ".", "1", RuneError}

QuoteMarks == {DQ, SQ, LDQ, RDQ, LSQ, RSQ}
CurlyMarks == {LDQ, RDQ, LSQ, RSQ}

IsLetter(r) == r \in Letters

ASCIIWhitespace == {TAB, NL, SP}

isASCIIWhitespace(r) == r \in ASCIIWhitespace

Control == {TAB, NL}

LegalHTMLAttributeNameRunes == Rune \ (Control \cup {SP, DQ, SQ, GT, "/", "="})

isLegalHTMLAttributeNameRune(r) == r \in LegalHTMLAttributeNameRunes

LegalHTMLAttributeValueUnquoted ==
  Rune \ (ASCIIWhitespace \cup {DQ, SQ, "=", LT, GT, BT})

isLegalHTMLAttributeValueUnquoted(r) == r \in LegalHTMLAttributeValueUnquoted

-----------------------------------------------------------------------------
(* Errors a parselet can return *)

Nil == "nil"
EOF == "EOF"
ErrExpected == "expected"
ErrPostcondition == "postcondition"
ErrWeirdRune == "weird rune"

-----------------------------------------------------------------------------
(* The dispatch table *)

whatDo_CurlyDoubleOnly ==
  (BS :> "atBackslash") @@
  (LDQ :> "atDoubleQuote") @@
  (SQ :> "atSingleQuote") @@ (LSQ :> "atSingleQuote") @@
  ("-" :> "atHyphen") @@
  (BT :> "atBacktick") @@
  (LT :> "atLessThan")

whatDo_HyphenToBackslash ==
  (BS :> "atBackslash") @@
  (DQ :> "atDoubleQuote") @@ (LDQ :> "atDoubleQuote") @@
  (SQ :> "atSingleQuote") @@ (LSQ :> "atSingleQuote") @@
  ("-" :> "atBackslash") @@
  (BT :> "atBacktick") @@
  (LT :> "atLessThan")

whatDo ==
  (BS :> "atBackslash") @@
  (DQ :> "atDoubleQuote") @@ (LDQ :> "atDoubleQuote") @@
  (SQ :> "atSingleQuote") @@ (LSQ :> "atSingleQuote") @@
  ("-" :> "atHyphen") @@
  (BT :> "atBacktick") @@
  (LT :> "atLessThan")

-----------------------------------------------------------------------------
(* Cursor and sink primitives.  o is the number of runes consumed, w the    *)
(* output written so far.                                                  *)

\* bytes.Reader.ReadRune: an undecodable byte is read as U+FFFD, without error
Decode(b) == IF b = BAD THEN RuneError ELSE b

AtEOF(o) == o >= Len(input)

RuneAt(o) == Decode(input[o + 1])

writeRune_Twice(w, r) == Append(Append(w, r), r)

writeRune(w, r) == Append(w, r)

\* previousRune: the rune and whether DecodeLastRune found one
previousRune(w) ==
  IF w = <<>> THEN [r |-> NUL, ok |-> FALSE] ELSE [r |-> w[Len(w)], ok |-> TRUE]

previousRuneMatchesLetter_Inverted(w) ==
  LET p == previousRune(w) IN IF ~p.ok THEN IsLetter(p.r) ELSE FALSE

previousRuneMatchesLetter(w) ==
  LET p == previousRune(w) IN IF ~p.ok THEN FALSE ELSE IsLetter(p.r)

\* the comparison is made only when previousRune reported an error
previousRuneMatchesAny(w, candidates) ==
  \E candidate \in candidates :
    LET p == previousRune(w) IN ~p.ok /\ p.r = candidate

previousRunesMatchOne(w, candidate) ==
  /\ Len(w) >= Len(candidate)
  /\ SubSeq(w, Len(w) - Len(candidate) + 1, Len(w)) = candidate

Stems_WithoutCan == {<<"y", "o", "u">>, <<"d", "o", "n">>}

Stems == {<<"c", "a", "n">>, <<"y", "o", "u">>, <<"d", "o", "n">>}

previousRunesMatchAny(w, candidates) ==
  \E candidate \in candidates : previousRunesMatchOne(w, candidate)

PeekEquals(o, needle) ==
  /\ o + Len(needle) <= Len(input)
  /\ SubSeq(input, o + 1, o + Len(needle)) = needle

Cur(o, w, e) == [off |-> o, out |-> w, err |-> e]

RECURSIVE AdvanceBy(_, _, _)
AdvanceBy(o, w, n) ==
  IF n <= 0 THEN Cur(o, w, Nil)
  ELSE IF AtEOF(o) THEN Cur(o, w, EOF)
  ELSE AdvanceBy(o + 1, writeRune(w, RuneAt(o)), n - 1)

RECURSIVE AdvanceUntil(_, _, _)
AdvanceUntil(o, w, stopBefore) ==
  IF PeekEquals(o, stopBefore) THEN Cur(o, w, Nil)
  ELSE IF AtEOF(o) THEN Cur(o, w, EOF)
  ELSE AdvanceUntil(o + 1, writeRune(w, RuneAt(o)), stopBefore)

\* f is the set of runes on which the predicate holds
RECURSIVE AdvanceUntilTrue(_, _, _)
AdvanceUntilTrue(o, w, f) ==
  IF AtEOF(o) THEN Cur(o, w, EOF)
  ELSE IF RuneAt(o) \in f THEN Cur(o, w, Nil)
  ELSE AdvanceUntilTrue(o + 1, writeRune(w, RuneAt(o)), f)

AdvanceUntilFalse(o, w, f) == AdvanceUntilTrue(o, w, Rune \ f)

\* len(stopAfter): the bytes of the literal's UTF-8 encoding, three for each
\* curly quote mark and for U+FFFD, one for each ASCII rune
RECURSIVE ByteLen(_)
ByteLen(needle) ==
  IF needle = <<>> THEN 0
  ELSE (IF Head(needle) \in CurlyMarks \cup {RuneError} THEN 3 ELSE 1) + ByteLen(Tail(needle))

AdvanceThrough_StopsBefore(o, w, stopAfter) == AdvanceUntil(o, w, stopAfter)

AdvanceThrough(o, w, stopAfter) ==
  LET u == AdvanceUntil(o, w, stopAfter) IN
    IF u.err # Nil THEN u ELSE AdvanceBy(u.off, u.out, ByteLen(stopAfter))

YAMLFence == <<NL, "-", "-", "-", NL>>
BacktickFence == <<NL, BT, BT, BT, NL>>
CodeEndTag == <<LT, "/", "c", "o", "d", "e">>
CodeName == <<"c", "o", "d", "e">>

RECURSIVE inSpan_IgnoresBackslash(_, _, _)
inSpan_IgnoresBackslash(o, w, sentinel) ==
  IF AtEOF(o) THEN Cur(o, w, EOF)
  ELSE IF RuneAt(o) = sentinel THEN Cur(o + 1, writeRune(w, RuneAt(o)), Nil)
  ELSE inSpan_IgnoresBackslash(o + 1, writeRune(w, RuneAt(o)), sentinel)

\* the loop of inSpanEndingWithSingleUnescapedRune; "panic" stands for
\* mustPreviousRune on an empty output
RECURSIVE inSpanEndingWithSingleUnescapedRune(_, _, _)
inSpanEndingWithSingleUnescapedRune(o, w, sentinel) ==
  IF AtEOF(o) THEN Cur(o, w, EOF)
  ELSE IF w = <<>> THEN Cur(o + 1, w, "panic")
  ELSE LET r == RuneAt(o)
           prev == w[Len(w)]
       IN IF r = sentinel /\ prev # BS
            THEN IF previousRune(writeRune(w, r)).r # sentinel
                   THEN Cur(o + 1, writeRune(w, r), ErrPostcondition)
                   ELSE Cur(o + 1, writeRune(w, r), Nil)
            ELSE inSpanEndingWithSingleUnescapedRune(o + 1, writeRune(w, r), sentinel)

inYAMLFrontMatter_StopsBefore(o, w) == AdvanceUntil(o, w, YAMLFence)

inYAMLFrontMatter(o, w) == AdvanceThrough(o, w, YAMLFence)

inTripleBacktickCodeBlock(o, w) == AdvanceThrough(o, w, BacktickFence)

inSingleBacktickCodeSpan(o, w) == inSpanEndingWithSingleUnescapedRune(o, w, BT)

inDoubleQuotedAttributeValue_IgnoresBackslash(o, w) ==
  inSpan_IgnoresBackslash(o, w, DQ)

inDoubleQuotedAttributeValue(o, w) == inSpanEndingWithSingleUnescapedRune(o, w, DQ)

inSingleQuotedAttributeValue(o, w) == inSpanEndingWithSingleUnescapedRune(o, w, SQ)

inUnquotedAttributeValue(o, w) ==
  AdvanceUntilTrue(o, w, Rune \ LegalHTMLAttributeValueUnquoted)

-----------------------------------------------------------------------------
(* The call stack.  A frame is a function with its position: "entry" (body  *)
(* not yet run), "loop" (top of its for loop), "wait" (it tail-called:      *)
(* return f(s)), "attrs" (inHTMLStartTagName awaiting handleHTMLAttributes) *)
(* and "afterAttrs".  loc is inHTMLStartTagName's                           *)
(* codeElementsEnteredAtStart.                                              *)

Frame(fn, pc) == [fn |-> fn, pc |-> pc, loc |-> 0]

Top == stack[Len(stack)]

Front(s) == SubSeq(s, 1, Len(s) - 1)

Running == result = "running" /\ stack # <<>>

At(fn, pc) == Running /\ Top.fn = fn /\ Top.pc = pc

\* what the callers do with a callee's returned error e: a tail-calling frame
\* returns it, a loop goes on when it is nil and returns it otherwise
RECURSIVE Unwind_KeepsLoops(_, _)
Unwind_KeepsLoops(stk, e) ==
  IF stk = <<>> THEN stk
  ELSE LET top == stk[Len(stk)] IN
    CASE top.pc = "wait" -> Unwind_KeepsLoops(Front(stk), e)
      [] top.pc = "attrs" ->
           IF e = Nil THEN [stk EXCEPT ![Len(stk)].pc = "afterAttrs"]
           ELSE Unwind_KeepsLoops(Front(stk), e)
      [] OTHER -> stk

RECURSIVE Unwind_EndsLoops(_, _)
Unwind_EndsLoops(stk, e) ==
  IF stk = <<>> THEN stk
  ELSE LET top == stk[Len(stk)] IN
    CASE top.pc = "wait" -> Unwind_EndsLoops(Front(stk), e)
      [] top.pc = "loop" -> Unwind_EndsLoops(Front(stk), e)
      [] top.pc = "attrs" ->
           IF e = Nil THEN [stk EXCEPT ![Len(stk)].pc = "afterAttrs"]
           ELSE Unwind_EndsLoops(Front(stk), e)
      [] OTHER -> stk

RECURSIVE Unwind(_, _)
Unwind(stk, e) ==
  IF stk = <<>> THEN stk
  ELSE LET top == stk[Len(stk)] IN
    CASE top.pc = "wait" -> Unwind(Front(stk), e)
      [] top.pc = "loop" -> IF e = Nil THEN stk ELSE Unwind(Front(stk), e)
      [] top.pc = "attrs" ->
           IF e = Nil THEN [stk EXCEPT ![Len(stk)].pc = "afterAttrs"]
           ELSE Unwind(Front(stk), e)
      [] OTHER -> stk

\* the current function returns e, having moved the cursor to o and the output to w
Return(o, w, e) ==
  LET stk == Unwind(Front(stack), e) IN
    /\ off' = o
    /\ out' = w
    /\ stack' = stk
    /\ err' = IF stk = <<>> THEN e ELSE err

\* return g(s)
TailCall(o, w, callee) ==
  /\ off' = o
  /\ out' = w
  /\ stack' = Append([stack EXCEPT ![Len(stack)].pc = "wait"], callee)
  /\ err' = err

Dispatch_ConsumesPeeked(f) ==
  /\ stack' = Append(stack, Frame(f, "entry"))
  /\ off' = off + 1
  /\ UNCHANGED <<out, err>>

\* err = f(s) from a dispatching loop
Dispatch(f) ==
  /\ stack' = Append(stack, Frame(f, "entry"))
  /\ UNCHANGED <<off, out, err>>

Copy_DropsRune ==
  /\ off' = off + 1
  /\ UNCHANGED <<out, stack, err>>

\* s.writeRune(s.mustReadRune()) in a loop that goes on
Copy ==
  /\ off' = off + 1
  /\ out' = writeRune(out, RuneAt(off))
  /\ UNCHANGED <<stack, err>>

rest == <<input, codeElementsEntered, result, delivered, call>>

-----------------------------------------------------------------------------
(* The dispatching loops and the quote parselets *)

\* one iteration of initial's loop
Initial ==
  /\ At("initial", "loop")
  /\ IF AtEOF(off) THEN Return(off, out, EOF)
     ELSE IF RuneAt(off) \in DOMAIN whatDo THEN Dispatch(whatDo[RuneAt(off)])
     ELSE Copy
  /\ UNCHANGED rest

atBackslash_DropsEscaped(o, w) ==
  LET r == RuneAt(o)
  IN IF r # BS THEN Cur(o + 1, w, ErrExpected)
     ELSE IF AtEOF(o + 1) THEN Cur(o + 1, writeRune(w, r), EOF)
     ELSE Cur(o + 2, writeRune(w, r), Nil)

atBackslash_ConsumesNothing(o, w) == Cur(o, w, Nil)

atBackslash_OnlyBackslash(o, w) == Cur(o + 1, writeRune(w, RuneAt(o)), Nil)

\* atBackslash's reads and writes, from the cursor on the backslash
atBackslash(o, w) ==
  LET r == RuneAt(o)
  IN IF r # BS THEN Cur(o + 1, w, ErrExpected)
     ELSE IF AtEOF(o + 1) THEN Cur(o + 1, writeRune(w, r), EOF)
     ELSE Cur(o + 2, writeRune(writeRune(w, r), RuneAt(o + 1)), Nil)

AtBackslash ==
  /\ At("atBackslash", "entry")
  /\ LET c == atBackslash(off, out) IN Return(c.off, c.out, c.err)
  /\ UNCHANGED rest

AtDoubleQuote ==
  /\ At("atDoubleQuote", "entry")
  /\ LET r == RuneAt(off)
     IN IF ~(r = DQ \/ r = LDQ) THEN Return(off + 1, out, ErrExpected)
        ELSE TailCall(off + 1, writeRune(out, LDQ), Frame("inDoubleQuotes", "loop"))
  /\ UNCHANGED rest

ClosesDoubleQuotes_StraightOnly(p) == p = DQ

ClosesDoubleQuotes_OnlyCurly(p) == p = RDQ

ClosesDoubleQuotes_AnyDouble(p) == p \in {DQ, LDQ, RDQ}

ClosesDoubleQuotes(p) == p = DQ \/ p = RDQ

\* one iteration of inDoubleQuotes' loop
InDoubleQuotes ==
  /\ At("inDoubleQuotes", "loop")
  /\ IF AtEOF(off) THEN Return(off, out, EOF)
     ELSE IF ClosesDoubleQuotes(RuneAt(off)) THEN Return(off + 1, writeRune(out, RDQ), Nil)
     ELSE IF RuneAt(off) \in DOMAIN whatDo THEN Dispatch(whatDo[RuneAt(off)])
     ELSE Copy
  /\ UNCHANGED rest

AtSingleQuote ==
  /\ At("atSingleQuote", "entry")
  /\ LET r == RuneAt(off)
     IN IF ~(r = SQ \/ r = LSQ) THEN Return(off + 1, out, ErrExpected)
        ELSE IF previousRuneMatchesLetter(out) THEN Return(off + 1, writeRune(out, RSQ), Nil)
        ELSE IF r = SQ /\ previousRuneMatchesAny(out, {GT, ")"})
          THEN Return(off + 1, writeRune(out, SQ), Nil)
        ELSE TailCall(off + 1, writeRune(out, LSQ), Frame("inSingleQuotes", "loop"))
  /\ UNCHANGED rest

ClosesSingleQuotes_StraightOnly(p) == p = SQ

ClosesSingleQuotes(p) == p = SQ \/ p = RSQ

\* one iteration of inSingleQuotes' loop
InSingleQuotes ==
  /\ At("inSingleQuotes", "loop")
  /\ IF AtEOF(off) THEN Return(off, out, EOF)
     ELSE IF ClosesSingleQuotes(RuneAt(off))
       THEN IF previousRunesMatchAny(out, Stems)
              THEN /\ off' = off + 1
                   /\ out' = writeRune(out, RSQ)
                   /\ UNCHANGED <<stack, err>>
              ELSE Return(off + 1, writeRune(out, RSQ), Nil)
     ELSE IF RuneAt(off) \in DOMAIN whatDo THEN Dispatch(whatDo[RuneAt(off)])
     ELSE Copy
  /\ UNCHANGED rest

-----------------------------------------------------------------------------
(* Literal spans *)

StartsYAMLFrontMatter_Anywhere(o) == PeekEquals(o, <<"-", "-">>)

StartsYAMLFrontMatter(o) == o = 1 /\ PeekEquals(o, <<"-", "-">>)

\* atHyphen, with inYAMLFrontMatter when it is entered
AtHyphen ==
  /\ At("atHyphen", "entry")
  /\ LET r == RuneAt(off)
     IN IF r # "-" THEN Return(off + 1, out, ErrExpected)
        ELSE IF StartsYAMLFrontMatter(off + 1)
          THEN LET c == inYAMLFrontMatter(off + 1, writeRune(out, r))
               IN Return(c.off, c.out, c.err)
        ELSE Return(off + 1, writeRune(out, r), Nil)
  /\ UNCHANGED rest

StartsTripleBacktickCodeBlock(o, w) ==
  PeekEquals(o, <<BT, BT>>) /\ previousRuneMatchesAny(w, {NL})

\* atBacktick, with the code block or code span it hands over to
AtBacktick ==
  /\ At("atBacktick", "entry")
  /\ LET r == RuneAt(off)
         c == IF StartsTripleBacktickCodeBlock(off + 1, out)
                THEN inTripleBacktickCodeBlock(off + 1, writeRune(out, r))
                ELSE inSingleBacktickCodeSpan(off + 1, writeRune(out, r))
     IN IF r # BT THEN Return(off + 1, out, ErrExpected) /\ UNCHANGED result
        ELSE IF c.err = "panic"
          THEN /\ result' = "panic"
               /\ UNCHANGED <<off, out, stack, err>>
        ELSE Return(c.off, c.out, c.err) /\ UNCHANGED result
  /\ UNCHANGED <<input, codeElementsEntered, delivered, call>>

-----------------------------------------------------------------------------
(* HTML *)

EndTagIsCode_AfterSlash(o) == PeekEquals(o + 1, CodeName)

\* inHTMLEndTagName's test, made with the cursor on the / of the end tag
EndTagIsCode(o) == PeekEquals(o, CodeName)

\* atLessThan, with inHTMLEndTagName when the next rune is /
AtLessThan ==
  /\ At("atLessThan", "entry")
  /\ LET r == RuneAt(off)
         w == writeRune(out, r)
         o == off + 1
     IN IF r # LT THEN Return(o, out, ErrExpected) /\ UNCHANGED codeElementsEntered
        ELSE IF AtEOF(o) THEN Return(o, w, EOF) /\ UNCHANGED codeElementsEntered
        ELSE IF IsLetter(RuneAt(o))
          THEN /\ TailCall(o, w, Frame("inHTMLStartTagName", "entry"))
               /\ UNCHANGED codeElementsEntered
        ELSE IF RuneAt(o) = "/"
          THEN LET c == AdvanceThrough(o, w, <<GT>>)
               IN /\ codeElementsEntered' =
                       IF EndTagIsCode(o) THEN codeElementsEntered - 1
                       ELSE codeElementsEntered
                  /\ Return(c.off, c.out, c.err)
        ELSE /\ Return(o + 1, writeRune(w, RuneAt(o)), Nil)
             /\ UNCHANGED codeElementsEntered
  /\ UNCHANGED <<input, result, delivered, call>>

StartTagIsCode(o) == PeekEquals(o, CodeName)

Outcome(how, c) == [how |-> how, off |-> c.off, out |-> c.out, err |-> c.err]

\* inHTMLStartTagName up to its branch on the rune after the name and the
\* whitespace: how it leaves ("return", "fatal", "code": return inCodeElement(s),
\* "attrs": err = handleHTMLAttributes(s)) and where the cursor is then.
\* entered tells whether the tag raised codeElementsEntered.
inHTMLStartTagNameEntry(o, w, entered) ==
  LET name == AdvanceUntilTrue(o, w, ASCIIWhitespace \cup {GT})
  IN IF name.err # Nil THEN Outcome("return", name)
     ELSE IF ~(RuneAt(name.off) = GT \/ isASCIIWhitespace(RuneAt(name.off)))
       THEN Outcome("fatal", name)
     ELSE LET ws == AdvanceUntilFalse(name.off, name.out, ASCIIWhitespace)
          IN IF ws.err # Nil THEN Outcome("return", ws)
             ELSE IF RuneAt(ws.off) = GT
               THEN Outcome(IF entered THEN "code" ELSE "return", ws)
             ELSE IF IsLetter(RuneAt(ws.off)) THEN Outcome("attrs", ws)
             ELSE Outcome("return", ws)

InHTMLStartTagName ==
  /\ At("inHTMLStartTagName", "entry")
  /\ LET codeElementsEnteredAtStart == codeElementsEntered
         entered == StartTagIsCode(off)
         x == inHTMLStartTagNameEntry(off, out, entered)
     IN /\ codeElementsEntered' =
             IF entered THEN codeElementsEntered + 1 ELSE codeElementsEntered
        /\ CASE x.how = "return" -> Return(x.off, x.out, x.err) /\ UNCHANGED result
             [] x.how = "fatal" ->
                  /\ result' = "fatal"
                  /\ off' = x.off
                  /\ out' = x.out
                  /\ UNCHANGED <<stack, err>>
             [] x.how = "code" ->
                  /\ TailCall(x.off, x.out, Frame("inCodeElement", "entry"))
                  /\ UNCHANGED result
             [] x.how = "attrs" ->
                  /\ off' = x.off
                  /\ out' = x.out
                  /\ stack' = Append([stack EXCEPT ![Len(stack)] =
                                        [fn |-> "inHTMLStartTagName", pc |-> "attrs",
                                         loc |-> codeElementsEnteredAtStart]],
                                     Frame("handleHTMLAttributes", "loop"))
                  /\ UNCHANGED <<err, result>>
  /\ UNCHANGED <<input, delivered, call>>

\* inHTMLStartTagName once handleHTMLAttributes has returned nil
InHTMLStartTagNameAfterAttributes ==
  /\ At("inHTMLStartTagName", "afterAttrs")
  /\ IF AtEOF(off) THEN Return(off, out, EOF)
     ELSE IF codeElementsEntered > Top.loc
       THEN TailCall(off, out, Frame("inCodeElement", "entry"))
     ELSE Return(off, out, Nil)
  /\ UNCHANGED rest

\* the attribute value after =, with the cursor on its first rune
attributeValue(o, w) ==
  LET p == RuneAt(o)
  IN CASE p = DQ -> inDoubleQuotedAttributeValue(o + 1, writeRune(w, p))
       [] p = SQ -> inSingleQuotedAttributeValue(o + 1, writeRune(w, p))
       [] p \notin {DQ, SQ} /\ isLegalHTMLAttributeValueUnquoted(p) ->
            inUnquotedAttributeValue(o, w)
       [] OTHER -> Cur(o, w, ErrWeirdRune)

skipWhitespace(o, w) ==
  IF isASCIIWhitespace(RuneAt(o)) THEN AdvanceUntilFalse(o, w, ASCIIWhitespace)
  ELSE Cur(o, w, Nil)

\* one iteration of handleHTMLAttributes' loop: "panic" is mustPeekRune at the
\* end of the input, "fatal" the failed postcondition, "loop" the next iteration
handleHTMLAttributesStep(o, w) ==
  IF AtEOF(o) THEN Outcome("panic", Cur(o, w, Nil))
  ELSE LET ws1 == skipWhitespace(o, w)
       IN IF ws1.err # Nil THEN Outcome("return", ws1)
     ELSE LET name == AdvanceUntilFalse(ws1.off, ws1.out, LegalHTMLAttributeNameRunes)
       IN IF name.err # Nil THEN Outcome("return", name)
     ELSE LET ws2 == skipWhitespace(name.off, name.out)
       IN IF ws2.err # Nil THEN Outcome("return", ws2)
     ELSE IF ~(RuneAt(ws2.off) = GT \/ RuneAt(ws2.off) = "=") THEN Outcome("fatal", ws2)
     ELSE IF RuneAt(ws2.off) = GT THEN Outcome("return", ws2)
     ELSE LET eq == Cur(ws2.off + 1, writeRune(ws2.out, RuneAt(ws2.off)), Nil)
       IN IF AtEOF(eq.off) THEN Outcome("return", Cur(eq.off, eq.out, EOF))
     ELSE LET ws3 == skipWhitespace(eq.off, eq.out)
       IN IF ws3.err # Nil THEN Outcome("return", ws3)
     ELSE LET v == attributeValue(ws3.off, ws3.out)
       IN IF v.err = "panic" THEN Outcome("panic", v)
          ELSE IF v.err = Nil THEN Outcome("loop", v)
          ELSE Outcome("return", v)

HandleHTMLAttributes ==
  /\ At("handleHTMLAttributes", "loop")
  /\ LET x == handleHTMLAttributesStep(off, out)
     IN CASE x.how = "return" -> Return(x.off, x.out, x.err) /\ UNCHANGED result
          [] x.how = "loop" ->
               /\ off' = x.off
               /\ out' = x.out
               /\ UNCHANGED <<stack, err, result>>
          [] x.how \in {"panic", "fatal"} ->
               /\ result' = x.how
               /\ off' = x.off
               /\ out' = x.out
               /\ UNCHANGED <<stack, err>>
  /\ UNCHANGED <<input, codeElementsEntered, delivered, call>>

inCodeElement_SkipsBody(o, w) == Cur(o + 1, writeRune(w, RuneAt(o)), Nil)

inCodeElement(o, w) ==
  LET body == AdvanceThrough(o, w, CodeEndTag)
  IN IF body.err # Nil THEN body
     ELSE LET tail == AdvanceUntilTrue(body.off, body.out, ASCIIWhitespace)
          IN IF tail.err # Nil THEN tail
             ELSE Cur(tail.off + 1, writeRune(tail.out, RuneAt(tail.off)), Nil)

InCodeElement ==
  /\ At("inCodeElement", "entry")
  /\ LET c == inCodeElement(off, out) IN Return(c.off, c.out, c.err)
  /\ UNCHANGED rest

-----------------------------------------------------------------------------
(* Educate *)

IsError_CountsEOF(e) == e # Nil

\* the test Educate makes on what initial returned
IsError(e) == e # Nil /\ e # EOF

\* initial has returned err: Educate hands the output over, or returns the error
Educate ==
  /\ result = "running"
  /\ stack = <<>>
  /\ IF IsError(err)
       THEN result' = "error" /\ delivered' = delivered
       ELSE result' = "ok" /\ delivered' = out
  /\ UNCHANGED <<input, off, out, stack, codeElementsEntered, err, call>>

Next ==
  \/ Initial
  \/ AtBackslash
  \/ AtDoubleQuote
  \/ InDoubleQuotes
  \/ AtSingleQuote
  \/ InSingleQuotes
  \/ AtHyphen
  \/ AtBacktick
  \/ AtLessThan
  \/ InHTMLStartTagName
  \/ InHTMLStartTagNameAfterAttributes
  \/ HandleHTMLAttributes
  \/ InCodeElement
  \/ Educate

-----------------------------------------------------------------------------
(* Inputs *)

\* the number of fragments an input is made of, at most
MaxFrags == 4

RECURSIVE Concats(_, _)
Concats(frags, n) ==
  IF n = 0 THEN {<<>>}
  ELSE LET shorter == Concats(frags, n - 1)
       IN shorter \cup {s \o f : s \in shorter, f \in frags}

\* inputs that take the parser through every parselet
Corpus ==
  { <<DQ, SQ, "a", SP, DQ, "o", DQ, SQ, ".", DQ>>,
    <<LT, "c", "o", "d", "e", SP, GT, DQ, LT, "/", "c", "o", "d", "e", GT, SP, SQ>>,
    <<LT, "a", SP, "b", "=", DQ, BS, DQ, SQ, DQ, SP, "c", "=", SQ, DQ, SQ, "d", "=", "e", SP, "n", GT, "a", SQ, LT, "/", "a", GT>>,
    <<LT, "c", "o", "d", "e", SP, "b", GT, SQ, LT, "/", "c", "o", "d", "e", GT, NL>>,
    <<"-", "-", "-", NL, SQ, NL, "-", "-", "-", NL, "a", SQ>>,
    <<BS, BT, SP, BT, BS, BT, SQ, BT, SQ>> }

InitWith(inputs) ==
  /\ input \in inputs
  /\ off = 0
  /\ out = <<>>
  /\ stack = <<Frame("initial", "loop")>>
  /\ codeElementsEntered = 0
  /\ err = Nil
  /\ result = "running"
  /\ delivered = <<>>
  /\ call = "first"

MixedFrags ==
  {<<DQ>>, <<SQ>>, <<"a">>, <<SP>>, <<BS>>, <<BT>>, <<"-">>, <<LT>>, <<GT>>,
   <<"/">>, <<"=">>}

QuoteFrags ==
  {<<DQ>>, <<LDQ>>, <<RDQ>>, <<SQ>>, <<LSQ>>, <<RSQ>>, <<"a">>, <<GT>>, <<")">>,
   <<"c", "a", "n">>}

SpanFrags ==
  {<<BT>>, <<BT, BT, BT>>, <<BS>>, <<SQ>>, <<"a">>, <<NL>>, <<"-">>,
   <<"-", "-", "-">>, YAMLFence, BacktickFence}

Init == InitWith(Corpus \cup Concats(MixedFrags, MaxFrags))

Spec == Init /\ [][Next]_vars

InitQuotes == InitWith(Corpus \cup Concats(QuoteFrags, MaxFrags))

SpecQuotes == InitQuotes /\ [][Next]_vars

InitSpans == InitWith(Corpus \cup Concats(SpanFrags, MaxFrags))

SpecSpans == InitSpans /\ [][Next]_vars

\* the characters that open and close spans and tags
DeepFrags == {<<DQ>>, <<SQ>>, <<BS>>, <<BT>>, <<LT>>, <<GT>>, <<"a">>, <<SP>>}

InitDeep == InitWith(Corpus \cup Concats(DeepFrags, MaxFrags))

\* Educate runs on for as long as it can take a step
SpecFair == InitDeep /\ [][Next]_vars /\ WF_vars(Next)

\* start tags named code, up to and including their >: bare, with whitespace,
\* with a bare attribute, with an unquoted and a bare one, with a quoted one,
\* and inside a double-quote span
CodeTags ==
  { <<LT, "c", "o", "d", "e", GT>>,
    <<LT, "c", "o", "d", "e", SP, GT>>,
    <<LT, "c", "o", "d", "e", SP, "b", GT>>,
    <<LT, "c", "o", "d", "e", SP, "b", "=", "e", SP, "n", GT>>,
    <<LT, "c", "o", "d", "e", NL, "b", "=", DQ, SQ, DQ, GT>>,
    <<DQ, LT, "c", "o", "d", "e", GT>> }

CodeFrags == {<<SQ>>, <<DQ>>, <<"a">>, <<SP>>, <<GT>>, <<LT>>, CodeEndTag}

\* a code start tag and what follows it
InitCode ==
  InitWith(Corpus \cup {t \o b : t \in CodeTags, b \in Concats(CodeFrags, MaxFrags)})

SpecCode == InitCode /\ [][Next]_vars

\* start tags up to the = of an attribute: after the tag's name, after a
\* bare attribute, with whitespace around the =, and inside a double-quote span
AttrTags ==
  { <<LT, "a", SP, "b", "=">>,
    <<LT, "a", SP, "n", SP, "b", SP, "=", NL>>,
    <<DQ, LT, "c", "o", "d", "e", SP, "b", "=">> }

AttrFrags == {<<DQ>>, <<SQ>>, <<BS>>, <<"a">>, <<SP>>, <<GT>>, <<SP, "c", "=">>}

\* a start tag's attributes and what follows them
InitAttrs ==
  InitWith(Corpus \cup {t \o v : t \in AttrTags, v \in Concats(AttrFrags, MaxFrags)})

SpecAttrs == InitAttrs /\ [][Next]_vars

CurlyFrags ==
  {<<LDQ>>, <<RDQ>>, <<LSQ>>, <<RSQ>>, <<SQ>>, <<"a">>, <<SP>>, <<GT>>, <<BAD>>,
   <<LT, "a", SP, "b", "=">>}

\* inputs with curly quote marks, undecodable bytes and attributes that fail
InitCurly == InitWith(Corpus \cup Concats(CurlyFrags, MaxFrags))

SpecCurly == InitCurly /\ [][Next]_vars

\* what opens a quote span, a code span, the front matter, a tag, an
\* attribute, an attribute value, a code element, an end tag
Openers ==
  { <<DQ>>, <<SQ>>, <<BT>>, <<"-", "-", "-", NL>>, <<LT, "a">>, <<LT, "a", SP, "b">>,
    <<LT, "a", SP, "b", "=">>, <<LT, "a", SP, "b", "=", DQ>>,
    <<LT, "a", SP, "b", "=", SQ>>, <<LT, "c", "o", "d", "e", GT>>, <<LT, "/", "a">> }

OpenFrags == {<<DQ>>, <<SQ>>, <<BT>>, <<"a">>, <<SP>>, <<GT>>}

\* inputs that may end with something open
InitOpen ==
  InitWith(Corpus \cup {o \o b : o \in Openers, b \in Concats(OpenFrags, MaxFrags)})

SpecOpen == InitOpen /\ [][Next]_vars

\* the caller runs Educate once more, on what the first call delivered
EducateAgain ==
  /\ result = "ok"
  /\ call = "first"
  /\ call' = "second"
  /\ input' = delivered
  /\ off' = 0
  /\ out' = <<>>
  /\ stack' = <<Frame("initial", "loop")>>
  /\ codeElementsEntered' = 0
  /\ err' = Nil
  /\ result' = "running"
  /\ delivered' = <<>>

NextTwice == Next \/ EducateAgain

TwiceFrags ==
  {<<DQ>>, <<LDQ>>, <<RDQ>>, <<SQ>>, <<LSQ>>, <<RSQ>>, <<"a">>, <<SP>>,
   <<"c", "a", "n">>}

InitTwice == InitWith(Corpus \cup Concats(TwiceFrags, MaxFrags))

SpecTwice == InitTwice /\ [][NextTwice]_vars

-----------------------------------------------------------------------------
(* Properties *)

Last(w) == w[Len(w)]

EndsWithLetter(w) == w # <<>> /\ Last(w) \in Letters

Peeked(p) == ~AtEOF(off) /\ RuneAt(off) \in p

\* the function one call up from the running one
Caller == stack[Len(stack) - 1].fn

IsSpan(f) == f.fn \in {"inDoubleQuotes", "inSingleQuotes"}

\* the quote spans that are open, outermost first
OpenSpans(stk) == [i \in 1..Len(SelectSeq(stk, IsSpan)) |-> SelectSeq(stk, IsSpan)[i].fn]

\* the running function hands over to callee: return callee(s)
HandsOverTo(callee) ==
  stack' = Append([stack EXCEPT ![Len(stack)].pc = "wait"], Frame(callee, "loop"))

\* the span whose loop is running ends, and the loop it was opened from goes on
SpanEnds == stack' = Front(Front(stack))

\* the running parselet returns to the loop that dispatched to it
BackToLoop == stack' = Front(stack)

\* C1: when Educate completes normally the output is as long as the input,
\* equals it at every position that holds no quote mark, and at a quote mark
\* holds that mark or one of the four curly marks.
C1_OnlyQuoteMarksChange ==
  result = "ok" =>
    /\ Len(delivered) = Len(input)
    /\ \A i \in 1..Len(input) :
         IF input[i] \in QuoteMarks
           THEN delivered[i] = input[i] \/ delivered[i] \in CurlyMarks
           ELSE delivered[i] = input[i]

C1_Witness ==
  /\ result = "ok"
  /\ input = <<DQ, BS, SQ, DQ>>
  /\ delivered = <<LDQ, BS, SQ, RDQ>>

\* C2: a " or left double quote met by the dispatch loop goes to atDoubleQuote,
\* which writes a left double quote and enters inDoubleQuotes; the " or right
\* double quote that inDoubleQuotes meets writes a right double quote and ends
\* the span, whichever of the two characters it was.
C2_DoubleQuotesNormalise ==
  [][ /\ (At("initial", "loop") /\ Peeked({DQ, LDQ}))
           => stack' = Append(stack, Frame("atDoubleQuote", "entry"))
      /\ (At("atDoubleQuote", "entry") /\ Peeked({DQ, LDQ}))
           => /\ out' = Append(out, LDQ)
              /\ off' = off + 1
              /\ HandsOverTo("inDoubleQuotes")
      /\ (At("inDoubleQuotes", "loop") /\ Peeked({DQ, RDQ}))
           => /\ out' = Append(out, RDQ)
              /\ off' = off + 1
              /\ SpanEnds ]_vars

C2_Witness ==
  /\ result = "ok"
  /\ input = <<LDQ, "a", DQ, DQ>>
  /\ delivered = <<LDQ, "a", RDQ, LDQ>>

AmbiguousSingleQuote(r, w) == r = SQ /\ w # <<>> /\ Last(w) \in {GT, ")"}

EndsWithStem(w) ==
  \E stem \in {<<"c", "a", "n">>, <<"y", "o", "u">>, <<"d", "o", "n">>} :
    Len(w) >= 3 /\ SubSeq(w, Len(w) - 2, Len(w)) = stem

\* C4: a ' or left single quote that reaches atSingleQuote when the last
\* written character is no letter (or nothing is written yet) and rule 2 does
\* not apply writes a left single quote and enters inSingleQuotes; the span
\* ends, with a right single quote written, at the next ' or right single quote
\* that inSingleQuotes does not take for a contraction's apostrophe.
C4_OpeningSingleQuote ==
  [][ /\ ( /\ At("atSingleQuote", "entry") /\ Peeked({SQ, LSQ})
           /\ ~EndsWithLetter(out)
           /\ ~AmbiguousSingleQuote(RuneAt(off), out) )
         => /\ out' = Append(out, LSQ)
            /\ off' = off + 1
            /\ HandsOverTo("inSingleQuotes")
      /\ ( /\ At("inSingleQuotes", "loop") /\ Peeked({SQ, RSQ})
           /\ ~EndsWithStem(out) )
         => /\ out' = Append(out, RSQ)
            /\ off' = off + 1
            /\ SpanEnds ]_vars

C4_Witness ==
  /\ result = "ok"
  /\ input = <<SQ, GT, RSQ, "a">>
  /\ delivered = <<LSQ, GT, RSQ, "a">>

\* C5: a plain ' that reaches atSingleQuote when the last written character
\* is > or ) is written unchanged and no single-quote span is entered.
C5_AmbiguousQuoteLeftAlone ==
  [][ ( /\ At("atSingleQuote", "entry") /\ Peeked({SQ})
        /\ out # <<>> /\ Last(out) \in {GT, ")"} )
      => /\ out' = Append(out, SQ)
         /\ off' = off + 1
         /\ BackToLoop ]_vars

\* C6: spans nest by type and close innermost first.  A " met by
\* inSingleQuotes opens a double-quote span inside it, a ' not after a letter
\* met by inDoubleQuotes opens a single-quote span inside it, and whenever an
\* open span goes away without the input having run out it is the innermost
\* one, closed by its own right quote mark.
C6_SpansNest ==
  [][ /\ (At("inSingleQuotes", "loop") /\ Peeked({DQ}))
           => stack' = Append(stack, Frame("atDoubleQuote", "entry"))
      /\ (At("atDoubleQuote", "entry") /\ Caller = "inSingleQuotes")
           => /\ out' = Append(out, LDQ)
              /\ OpenSpans(stack') = Append(OpenSpans(stack), "inDoubleQuotes")
      /\ (At("inDoubleQuotes", "loop") /\ Peeked({SQ}))
           => stack' = Append(stack, Frame("atSingleQuote", "entry"))
      /\ ( /\ At("atSingleQuote", "entry") /\ Peeked({SQ})
           /\ Caller = "inDoubleQuotes" /\ ~EndsWithLetter(out) )
           => /\ out' = Append(out, LSQ)
              /\ OpenSpans(stack') = Append(OpenSpans(stack), "inSingleQuotes")
      /\ (Len(OpenSpans(stack')) < Len(OpenSpans(stack)) /\ stack' # <<>>)
           => /\ OpenSpans(stack') = Front(OpenSpans(stack))
              /\ Top.fn = Last(OpenSpans(stack))
              /\ out' = Append(out, IF Top.fn = "inDoubleQuotes" THEN RDQ ELSE RSQ) ]_vars

C6_Witness ==
  /\ result = "ok"
  /\ input = <<DQ, SQ, "a", SP, DQ, "o", DQ, SQ, ".", DQ>>
  /\ delivered = <<LDQ, LSQ, "a", SP, LDQ, "o", RDQ, RSQ, ".", RDQ>>

\* the offsets at or after o where needle lies ahead
Occurrences(o, needle) ==
  {j \in o..Len(input) :
     j + Len(needle) <= Len(input) /\ SubSeq(input, j + 1, j + Len(needle)) = needle}

Min(S) == CHOOSE j \in S : \A k \in S : j <= k

\* the indexes past the backtick at index i of the backticks that no backslash precedes
UnescapedBackticks(i) ==
  {j \in (i + 1)..Len(input) : input[j] = BT /\ input[j - 1] # BS}

\* C7: from the backtick that opens a single-backtick code span through the
\* next backtick not right after a backslash everything is copied unchanged,
\* and the loop that met the opening backtick goes on with the character
\* after the closing one.
C7_CodeSpanCopied ==
  [][ ( /\ At("atBacktick", "entry")
        /\ ~StartsTripleBacktickCodeBlock(off + 1, out)
        /\ UnescapedBackticks(off + 1) # {} )
      => LET end == Min(UnescapedBackticks(off + 1))
         IN /\ off' = end
            /\ out' = out \o SubSeq(input, off + 1, end)
            /\ BackToLoop ]_vars

C7_Witness ==
  /\ result = "ok"
  /\ input = <<BS, BT, SP, BT, BS, BT, SQ, BT, SQ>>
  /\ delivered = <<BS, BT, SP, BT, BS, BT, SQ, BT, LSQ>>

\* C8: a backtick with a newline written before it and two more backticks
\* after it enters the fence: everything through the next newline, three
\* backticks, newline is copied unchanged.
C8_FenceCopied ==
  [][ ( /\ At("atBacktick", "entry")
        /\ out # <<>> /\ Last(out) = NL
        /\ PeekEquals(off + 1, <<BT, BT>>)
        /\ Occurrences(off + 1, BacktickFence) # {} )
      => LET end == Min(Occurrences(off + 1, BacktickFence)) + Len(BacktickFence)
         IN /\ off' = end
            /\ out' = out \o SubSeq(input, off + 1, end)
            /\ BackToLoop ]_vars

\* C9: when the input begins with three hyphens, everything from its first
\* character through the first newline, three hyphens, newline after it is
\* copied unchanged, and the dispatch loop goes on with the character after
\* that.
C9_FrontMatterCopied ==
  [][ /\ (At("initial", "loop") /\ off = 0 /\ PeekEquals(0, <<"-", "-", "-">>))
           => stack' = Append(stack, Frame("atHyphen", "entry"))
      /\ ( /\ At("atHyphen", "entry")
           /\ off = 0
           /\ PeekEquals(0, <<"-", "-", "-">>)
           /\ Occurrences(1, YAMLFence) # {} )
           => LET end == Min(Occurrences(1, YAMLFence)) + Len(YAMLFence)
              IN /\ off' = end
                 /\ out' = SubSeq(input, 1, end)
                 /\ stack' = <<Frame("initial", "loop")>> ]_vars

C9_Witness ==
  /\ result = "ok"
  /\ input = <<"-", "-", "-", SQ, NL, "-", "-", "-", NL, SQ>>
  /\ delivered = <<"-", "-", "-", SQ, NL, "-", "-", "-", NL, LSQ>>

\* C10: a hyphen that is not the first character of the input, or is not
\* followed by two more, is copied as an ordinary character and the front
\* matter is not entered.
C10_OtherHyphensCopied ==
  [][ ( /\ At("atHyphen", "entry")
        /\ ~(off = 0 /\ PeekEquals(0, <<"-", "-", "-">>)) )
      => /\ off' = off + 1
         /\ out' = Append(out, "-")
         /\ BackToLoop ]_vars

C10_Witness ==
  /\ result = "ok"
  /\ input = <<"a", NL, "-", "-", "-", NL, "a", SQ>>
  /\ delivered = <<"a", NL, "-", "-", "-", NL, "a", RSQ>>

\* pieces of tags: the opening of a start tag named a and of one named code,
\* the opening of the end tag of code, a letter, the >, a straight double
\* quote, a bare attribute, one with an unquoted value, and one with a
\* double-quoted value followed by one with a single-quoted value
TagFrags ==
  { <<LT, "a">>, <<LT, "c", "o", "d", "e">>, CodeEndTag, <<"n">>, <<GT>>, <<DQ>>,
    <<SP, "b">>, <<SP, "c", "=", "e">>,
    <<SP, "d", "=", DQ, SQ, DQ, NL, "e", "=", SQ, DQ, SQ>> }

InitTags == InitWith(Corpus \cup Concats(TagFrags, MaxFrags))

SpecTags == InitTags /\ [][Next]_vars

\* pieces of text with nested constructs: the quote marks, a letter, a
\* backtick, a code span, a start tag with a quoted attribute value, an end
\* tag and an unfinished start tag with quote marks in them, and the >
NestFrags ==
  { <<DQ>>, <<SQ>>, <<"a">>, <<BT>>, <<GT>>,
    <<BT, SQ, DQ, BT>>,
    <<LT, "a", SP, "b", "=", DQ, SQ, DQ, GT>>,
    <<LT, "/", "a", DQ, SQ, GT>>,
    <<LT, "a", SQ>> }

InitNested == InitWith(Corpus \cup Concats(NestFrags, MaxFrags))

SpecNested == InitNested /\ [][Next]_vars

\* the first offset at or after o whose rune is not in S, the end of the input if none
FirstNot(o, S) ==
  Min({j \in o..Len(input) : j = Len(input) \/ RuneAt(j) \notin S})

EntersCodeElement ==
  stack' = Append([stack EXCEPT ![Len(stack)].pc = "wait"], Frame("inCodeElement", "entry"))

\* C11: a start tag named code, its name followed by optional whitespace and
\* the > or by attributes and the >, hands over to the code-element body with
\* the cursor on that >, and from that > through the first </code after it
\* (through the end of the input when there is none) every character is
\* copied unchanged.
C11_CodeBodyCopied ==
  [][ /\ ( /\ At("inHTMLStartTagName", "entry")
           /\ PeekEquals(off, CodeName)
           /\ FirstNot(off + Len(CodeName), ASCIIWhitespace) < Len(input)
           /\ RuneAt(FirstNot(off + Len(CodeName), ASCIIWhitespace)) = GT )
         => LET gt == FirstNot(off + Len(CodeName), ASCIIWhitespace)
            IN /\ off' = gt
               /\ out' = out \o SubSeq(input, off + 1, gt)
               /\ EntersCodeElement
      /\ ( /\ At("inHTMLStartTagName", "afterAttrs")
           /\ codeElementsEntered > Top.loc
           /\ ~AtEOF(off) )
         => /\ RuneAt(off) = GT
            /\ EntersCodeElement
            /\ UNCHANGED <<off, out>>
      /\ At("inCodeElement", "entry")
         => /\ RuneAt(off) = GT
            /\ LET ends == Occurrences(off, CodeEndTag)
                   end == IF ends = {} THEN Len(input) ELSE Min(ends) + Len(CodeEndTag)
               IN /\ off' >= end
                  /\ SubSeq(out', 1, Len(out) + end - off)
                       = out \o SubSeq(input, off + 1, end) ]_vars

C11_Witness ==
  /\ result = "ok"
  /\ input = <<LT, "c", "o", "d", "e", NL, "b", "=", DQ, SQ, DQ, GT,
               SQ, DQ, LT, "/", "c", "o", "d", "e", GT>>
  /\ delivered = input

\* C12: when the body's </code is followed by optional whitespace and a >,
\* the code-element step consumes no quote mark after that >, and while
\* input is left after the > the loop that met the tag goes on dispatching.
C12_DispatchResumesAfterEndTag ==
  [][ ( /\ At("inCodeElement", "entry")
        /\ Occurrences(off, CodeEndTag) # {}
        /\ LET gt == FirstNot(Min(Occurrences(off, CodeEndTag)) + Len(CodeEndTag),
                              ASCIIWhitespace)
           IN gt < Len(input) /\ RuneAt(gt) = GT )
      => LET gt == FirstNot(Min(Occurrences(off, CodeEndTag)) + Len(CodeEndTag),
                            ASCIIWhitespace)
         IN /\ \A k \in (gt + 1)..(off' - 1) : RuneAt(k) \notin QuoteMarks
            /\ gt + 1 < Len(input) => (stack' # <<>> /\ stack'[Len(stack')].pc = "loop") ]_vars

\* the offsets past v of the runes q that no backslash precedes
UnescapedAfter(v, q) ==
  {j \in (v + 1)..(Len(input) - 1) : RuneAt(j) = q /\ RuneAt(j - 1) # BS}

\* the runes that end an unquoted attribute value
UnquotedValueEnds == ASCIIWhitespace \cup {DQ, SQ, "=", LT, GT, BT}

\* the offset of the rune after the attribute name that starts at or after o
AfterAttributeName(o) ==
  FirstNot(FirstNot(FirstNot(o, ASCIIWhitespace), LegalHTMLAttributeNameRunes),
           ASCIIWhitespace)

\* the offset of the first rune of the value of the attribute at o, given its =
AttributeValueStart(o) == FirstNot(AfterAttributeName(o) + 1, ASCIIWhitespace)

HasAttributeValue(o) ==
  /\ AfterAttributeName(o) < Len(input)
  /\ RuneAt(AfterAttributeName(o)) = "="
  /\ AttributeValueStart(o) < Len(input)

\* C13: in a start tag's attributes everything is copied unchanged; a value
\* that opens with " (with ') runs through the next " (') that no backslash
\* precedes, any other value up to the first whitespace or " ' = < > `, and
\* the attribute loop goes on after it; at the tag's > the loop that met the
\* tag goes on dispatching with that >, so the text after it is dispatched.
C13_AttributeValuesCopied ==
  [][ /\ At("handleHTMLAttributes", "loop")
         => out' = out \o SubSeq(input, off + 1, off')
      /\ ( /\ At("handleHTMLAttributes", "loop")
           /\ HasAttributeValue(off)
           /\ RuneAt(AttributeValueStart(off)) \in {DQ, SQ}
           /\ UnescapedAfter(AttributeValueStart(off), RuneAt(AttributeValueStart(off))) # {} )
         => /\ off' = 1 + Min(UnescapedAfter(AttributeValueStart(off),
                                             RuneAt(AttributeValueStart(off))))
            /\ UNCHANGED <<stack, result>>
      /\ ( /\ At("handleHTMLAttributes", "loop")
           /\ HasAttributeValue(off)
           /\ RuneAt(AttributeValueStart(off)) \notin UnquotedValueEnds
           /\ \E j \in AttributeValueStart(off)..(Len(input) - 1) :
                RuneAt(j) \in UnquotedValueEnds )
         => /\ off' = FirstNot(AttributeValueStart(off), Rune \ UnquotedValueEnds)
            /\ UNCHANGED <<stack, result>>
      /\ ( /\ At("handleHTMLAttributes", "loop")
           /\ AfterAttributeName(off) < Len(input)
           /\ RuneAt(AfterAttributeName(off)) = GT )
         => /\ off' = AfterAttributeName(off)
            /\ stack' = [Front(stack) EXCEPT ![Len(stack) - 1].pc = "afterAttrs"]
      /\ ( /\ At("inHTMLStartTagName", "afterAttrs")
           /\ codeElementsEntered = Top.loc
           /\ ~AtEOF(off) )
         => /\ RuneAt(off) = GT
            /\ UNCHANGED <<off, out>>
            /\ stack' = Front(Front(stack))
            /\ stack'[Len(stack')].pc = "loop" ]_vars

C13_Witness ==
  /\ result = "ok"
  /\ input = <<LT, "a", SP, "b", "=", DQ, BS, DQ, SQ, DQ, SP, "c", "=", SQ, DQ, SQ,
               "d", "=", "e", SP, "n", GT, "a", SQ, LT, "/", "a", GT>>
  /\ delivered = <<LT, "a", SP, "b", "=", DQ, BS, DQ, SQ, DQ, SP, "c", "=", SQ, DQ, SQ,
                   "d", "=", "e", SP, "n", GT, "a", RSQ, LT, "/", "a", GT>>

\* C14: a dispatch loop that peeks a backslash calls atBackslash, which copies
\* the backslash and the character after it unchanged and returns to that
\* loop with no span opened or closed, the cursor on the character after.
C14_EscapedRuneCopied ==
  [][ /\ ( /\ Running
           /\ Top.pc = "loop"
           /\ Top.fn \in {"initial", "inDoubleQuotes", "inSingleQuotes"}
           /\ Peeked({BS}) )
         => /\ stack' = Append(stack, Frame("atBackslash", "entry"))
            /\ UNCHANGED <<off, out>>
      /\ (At("atBackslash", "entry") /\ off + 1 < Len(input))
         => /\ off' = off + 2
            /\ out' = out \o <<BS, input[off + 2]>>
            /\ BackToLoop ]_vars

C14_Witness ==
  /\ result = "ok"
  /\ input = <<BS, DQ, "a", DQ>>
  /\ delivered = <<BS, DQ, "a", LDQ>>

Contains(s, r) == \E i \in 1..Len(s) : s[i] = r

LeftSingleAfterLetter(s) ==
  \E i \in 2..Len(s) : s[i] = LSQ /\ IsLetter(s[i - 1])

NoSuppressedSpans(s) ==
  /\ ~Contains(s, BS) /\ ~Contains(s, BT) /\ ~Contains(s, LT)
  /\ ~(Len(s) >= 3 /\ SubSeq(s, 1, 3) = <<"-", "-", "-">>)

\* C16: when Educate is run on the output of a first run whose input held no
\* suppressed span (that output holds none either, since only quote marks
\* change), it completes normally and delivers its input unchanged.
C16_Idempotent ==
  (call = "second" /\ result # "running" /\ NoSuppressedSpans(input))
    => (result = "ok" /\ delivered = input)

C16_Witness ==
  /\ call = "second"
  /\ result = "ok"
  /\ input = <<LDQ, LSQ, "c", "a", "n", RSQ>>
  /\ delivered = input

\* the last k runes of s
LastRunes(s, k) == SubSeq(s, Len(s) - k + 1, Len(s))

\* C17: when initial's own loop finds the input exhausted, with no parselet
\* running, it returns io.EOF with the output as it is; Educate takes io.EOF
\* as success and delivers the whole output: nothing for the empty input, and
\* with every newline the input ends with.
C17_EndOfInputIsSuccess ==
  [][ /\ (At("initial", "loop") /\ Len(stack) = 1 /\ AtEOF(off))
         => /\ stack' = <<>>
            /\ err' = EOF
            /\ UNCHANGED <<off, out, result, delivered>>
      /\ (result = "running" /\ stack = <<>> /\ err = EOF)
         => /\ result' = "ok"
            /\ delivered' = out
            /\ input = <<>> => delivered' = <<>>
            /\ \A k \in 1..Len(input) :
                 (\A i \in 1..k : LastRunes(input, k)[i] = NL)
                   => (Len(delivered') >= k /\ LastRunes(delivered', k) = LastRunes(input, k)) ]_vars

C17_Witness ==
  /\ result = "ok"
  /\ err = EOF
  /\ input = <<"a", SQ, NL, NL>>
  /\ delivered = <<"a", RSQ, NL, NL>>

\* the running parselet's step uses up the input and ends the whole parse
EndsInsideParselet == Running /\ Len(stack) > 1 /\ AtEOF(off') /\ stack' = <<>>

\* C18 as stated: when the input runs out inside a parselet called from the
\* dispatch loop, what initial returns to Educate is an error other than the
\* io.EOF of normal completion.
C18_EndInsideSpanIsError ==
  [][ EndsInsideParselet => (err' # Nil /\ err' # EOF) ]_vars

\* C18, amended: when the input runs out inside a parselet, every function of
\* the call chain returns io.EOF, the same that initial returns at top level
\* (a loop that finds the input exhausted returns it with the output as it
\* is), except that handleHTMLAttributes panics when the input ends where it
\* looks for the next attribute; and on io.EOF Educate completes normally and
\* delivers the whole output.
C18_EndInsideSpanIsSuccess ==
  [][ /\ EndsInsideParselet => err' = EOF
      /\ (Running /\ Len(stack) > 1 /\ AtEOF(off))
         => IF Top.fn = "handleHTMLAttributes"
              THEN result' = "panic" /\ UNCHANGED <<off, out, stack, delivered>>
              ELSE stack' = <<>> /\ err' = EOF /\ UNCHANGED <<off, out, result>>
      /\ (result = "running" /\ stack = <<>> /\ err = EOF)
         => (result' = "ok" /\ delivered' = out /\ Len(out) = Len(input)) ]_vars

C18_Witness ==
  /\ result = "ok"
  /\ err = EOF
  /\ input = <<LT, "a", SP, "b", "=", DQ, "a", SQ>>
  /\ delivered = input

\* C19: when initial returns an error other than io.EOF, Educate stops and
\* the caller is handed the error together with the output written so far.
C19_PartialOutputWithError ==
  [][ (result = "running" /\ stack = <<>> /\ err # Nil /\ err # EOF)
      => (result' = "error" /\ delivered' = out) ]_vars

\* C20: Educate does not complete normally on an input that holds an
\* undecodable byte.
C20_UndecodableInputAborts ==
  (result # "running" /\ Contains(input, BAD)) => result # "ok"

C21_NoAssertionFails == result # "fatal"

\* whether the input from offset o on is a sequence of attributes (a name, or
\* a name, = and a double-quoted, single-quoted or unquoted value), each
\* preceded by whitespace or directly by the > that follows them all
RECURSIVE AttributesThenGT(_)
AttributesThenGT(o) ==
  LET a == FirstNot(o, ASCIIWhitespace)
      n == FirstNot(a, LegalHTMLAttributeNameRunes)
      e == FirstNot(n, ASCIIWhitespace)
      v == FirstNot(e + 1, ASCIIWhitespace)
      closing == {j \in (v + 1)..(Len(input) - 1) : RuneAt(j) = RuneAt(v)}
      after == IF RuneAt(v) \in {DQ, SQ} THEN Min(closing) + 1
               ELSE FirstNot(v, LegalHTMLAttributeValueUnquoted)
  IN IF AtEOF(a) THEN FALSE
     ELSE IF RuneAt(a) = GT THEN TRUE
     ELSE IF n = a \/ AtEOF(e) THEN FALSE
     ELSE IF RuneAt(e) # "=" THEN (e > n \/ RuneAt(e) = GT) /\ AttributesThenGT(e)
     ELSE IF AtEOF(v) THEN FALSE
     ELSE IF RuneAt(v) \in {DQ, SQ} /\ closing = {} THEN FALSE
     ELSE /\ after > v
          /\ ~AtEOF(after)
          /\ RuneAt(after) \in ASCIIWhitespace \cup {GT}
          /\ AttributesThenGT(after)

\* C23: when the attributes from the cursor on are bare names and name=value
\* pairs with double-quoted, single-quoted or unquoted values, separated by
\* whitespace and followed by >, every iteration of handleHTMLAttributes
\* copies what it consumes, and the loop either goes on with the remaining
\* attributes or returns without error with > as the next rune.
C23_AttributesConsumed ==
  [][ (At("handleHTMLAttributes", "loop") /\ AttributesThenGT(off))
      => /\ result' = "running"
         /\ off' >= off
         /\ out' = out \o SubSeq(input, off + 1, off')
         /\ AttributesThenGT(off')
         /\ \/ UNCHANGED stack /\ off' > off
            \/ /\ stack' = [Front(stack) EXCEPT ![Len(stack) - 1].pc = "afterAttrs"]
               /\ RuneAt(off') = GT ]_vars

\* the offset of the rune after the tag name that starts at o
AfterTagName(o) == FirstNot(o, Rune \ (ASCIIWhitespace \cup {GT}))

\* C24: inHTMLStartTagName raises codeElementsEntered, and hands over to the
\* code-element body, only when the name of the start tag is exactly code; a
\* tag whose name merely begins with code is an ordinary tag.
C24_OnlyExactCodeName ==
  [][ (At("inHTMLStartTagName", "entry")
        /\ (codeElementsEntered' # codeElementsEntered \/ EntersCodeElement))
      => SubSeq(input, off + 1, AfterTagName(off)) = CodeName ]_vars

\* C25: codeElementsEntered is never negative, whatever the input, an end
\* tag of code without a start tag before it included.
C25_CounterNonNegative == codeElementsEntered >= 0

C25_Witness ==
  /\ result = "ok"
  /\ input = <<DQ>> \o CodeEndTag \o <<GT, DQ>>
  /\ delivered = <<LDQ>> \o CodeEndTag \o <<GT, RDQ>>
  /\ codeElementsEntered = 0

\* whether a complete end tag of code follows the cursor: </code, optional
\* whitespace and >
CodeElementEnds(o) ==
  /\ Occurrences(o, CodeEndTag) # {}
  /\ LET gt == FirstNot(Min(Occurrences(o, CodeEndTag)) + Len(CodeEndTag), ASCIIWhitespace)
     IN gt < Len(input) /\ RuneAt(gt) = GT

\* C26: when the body of a code element and its end tag have been read,
\* codeElementsEntered is back at the value it had before the start tag,
\* which had raised it by one.
C26_CounterRestored ==
  [][ (At("inCodeElement", "entry") /\ CodeElementEnds(off))
      => codeElementsEntered' = codeElementsEntered - 1 ]_vars

\* C27: when the rune after a < is neither a letter nor /, atLessThan takes
\* only the < and returns with the rune right after it as the next to be
\* read, so that this rune is dispatched like any other.
C27_OnlyLessThanTaken ==
  [][ ( /\ At("atLessThan", "entry")
        /\ RuneAt(off) = LT
        /\ ~AtEOF(off + 1)
        /\ ~IsLetter(RuneAt(off + 1))
        /\ RuneAt(off + 1) # "/" )
      => /\ off' = off + 1
         /\ out' = Append(out, LT)
         /\ BackToLoop ]_vars

\* the parselets of code spans, code blocks, tags and code elements
NestedParselets ==
  {"atBacktick", "atLessThan", "inHTMLStartTagName", "handleHTMLAttributes",
   "inCodeElement"}

\* the index in the stack of the loop of the innermost open quote span
InnermostSpan == CHOOSE i \in 1..Len(stack) :
  IsSpan(stack[i]) /\ \A j \in (i + 1)..Len(stack) : ~IsSpan(stack[j])

\* C28: the loop of an open quote span dispatches a backtick and a < like
\* the top-level loop does; while the parselet of the code span or tag runs,
\* what it consumes is copied unchanged, quote marks included, and the
\* enclosing span stays open below it, so that when the parselet returns the
\* span's loop goes on with the rune after what the parselet consumed; the
\* span goes away under it only when the whole run ends with an error or the
\* end of the input.
C28_NestedInsideQuoteSpan ==
  [][ /\ (Running /\ IsSpan(Top) /\ Top.pc = "loop" /\ Peeked({BT, LT}))
         => /\ stack' = Append(stack, Frame(whatDo[RuneAt(off)], "entry"))
            /\ UNCHANGED <<off, out>>
      /\ (Running /\ Top.fn \in NestedParselets /\ OpenSpans(stack) # <<>>)
         => /\ off' >= off
            /\ out' = out \o SubSeq(input, off + 1, off')
            /\ \/ /\ Len(stack') >= InnermostSpan
                  /\ SubSeq(stack', 1, InnermostSpan) = SubSeq(stack, 1, InnermostSpan)
               \/ stack' = <<>> /\ err' # Nil ]_vars

C28_Witness ==
  /\ result = "ok"
  /\ input = <<DQ, BT, SQ, DQ, BT, LT, "a", SP, "b", "=", DQ, SQ, DQ, GT, DQ>>
  /\ delivered = <<LDQ, BT, SQ, DQ, BT, LT, "a", SP, "b", "=", DQ, SQ, DQ, GT, RDQ>>

\* the runes that have no entry in whatDo
NonTriggers == Rune \ DOMAIN whatDo

\* how many straight double quotes the first i runes of the input hold
StraightDoublesUpTo(i) == Cardinality({j \in 1..i : input[j] = DQ})

\* the k-th " is written as a left double quote when k is odd and as a right
\* one when k is even, and every other rune is written as it is
DoublesAlternate ==
  /\ Len(delivered) = Len(input)
  /\ \A i \in 1..Len(input) :
       delivered[i] = IF input[i] # DQ THEN input[i]
                      ELSE IF StraightDoublesUpTo(i) % 2 = 1 THEN LDQ ELSE RDQ

\* C29 as stated: on an input whose only trigger characters are straight
\* double quotes, all its other characters being non-trigger characters, the
\* k-th " is written as a left double quote when k is odd and as a right one
\* when k is even, and the other characters are unchanged.
C29_DoublesAlternate ==
  (result = "ok" /\ \A i \in 1..Len(input) : input[i] \in {DQ} \cup NonTriggers)
    => DoublesAlternate

\* C29: on an input whose only trigger characters are straight double quotes
\* and which holds no right double quote, the k-th " is written as a left
\* double quote when k is odd and as a right one when k is even, and the other
\* characters are unchanged.
C29_DoublesAlternateWithoutCurly ==
  (result = "ok" /\ \A i \in 1..Len(input) : input[i] \in {DQ} \cup (NonTriggers \ {RDQ}))
    => DoublesAlternate

C29_Witness ==
  /\ result = "ok"
  /\ input = <<DQ, RSQ, DQ, DQ>>
  /\ delivered = <<LDQ, RSQ, RDQ, LDQ>>

\* how far the running function is from consuming a rune or returning: a
\* handleHTMLAttributes that returns at once leaves inHTMLStartTagName after
\* its attributes, which returns to a loop or calls inCodeElement; a loop
\* that consumes nothing dispatches, and a parselet entered consumes
Phase ==
  IF result # "running" THEN 0
  ELSE IF stack = <<>> THEN 1
  ELSE IF Top.pc = "entry" THEN 2
  ELSE IF Top.fn = "handleHTMLAttributes" THEN 5
  ELSE IF Top.pc = "afterAttrs" THEN 4
  ELSE 3

\* what is left to do: the runes not yet consumed, then the phase
Measure == 6 * (Len(input) - off) + Phase

\* every step consumes a rune, returns, or moves on to a function that does
Progress ==
  /\ Measure' < Measure
  /\ off' >= off
  /\ (Running /\ Top.pc = "entry")
       => (off' > off \/ stack' = <<>> \/ result' # "running")
  /\ (Running /\ Top.pc = "loop")
       => \/ off' > off
          \/ Len(stack') < Len(stack)
          \/ result' # "running"
          \/ stack' = Append(stack, Frame(whatDo[RuneAt(off)], "entry"))

\* C30 as stated: Educate stops on every input, every parselet call and every
\* loop iteration consumes a rune or returns, and the parselet calls nested
\* below the top-level loop are never more than the input has characters.
C30_StopsWithinInputDepth ==
  /\ <>(result # "running")
  /\ [][Progress]_vars
  /\ [](Len(stack) - 1 <= Len(input))

\* C30: Educate stops on every input, every parselet call and every loop
\* iteration consumes a rune or returns, and the parselet calls nested below
\* the top-level loop are never more than twice the characters consumed so
\* far, plus one.
C30_StopsWithinTwiceInputDepth ==
  /\ <>(result # "running")
  /\ [][Progress]_vars
  /\ [](Len(stack) - 1 <= 2 * off + 1)

C30_Witness ==
  /\ input = <<DQ, SQ, DQ, SQ>>
  /\ off = 4
  /\ OpenSpans(stack) = <<"inDoubleQuotes", "inSingleQuotes", "inDoubleQuotes", "inSingleQuotes">>
  /\ Len(stack) = 9

\* C36: previousRuneMatchesAny, asked about the output written so far and any
\* of the candidates atSingleQuote passes to it, answers true exactly when
\* that output is not empty and its last rune is one of the candidates.
C36_MatchesLastWritten ==
  \A candidates \in SUBSET {GT, ")"} :
    previousRuneMatchesAny(out, candidates)
      <=> (out # <<>> /\ Last(out) \in candidates)

\* the literals the parselets pass to AdvanceThrough
StopAfterLiterals == {YAMLFence, BacktickFence, CodeEndTag, <<GT>>}

\* C37: AdvanceThrough, called at the cursor with any of the literals the
\* parselets use, returns nil when the literal occurs at or after the cursor,
\* having copied unchanged the runes from the cursor through the end of the
\* first occurrence and left the cursor right after it; when the literal does
\* not occur it returns io.EOF, having copied every remaining rune.
C37_AdvanceThroughContract ==
  \A lit \in StopAfterLiterals :
    LET c == AdvanceThrough(off, out, lit)
        end == IF Occurrences(off, lit) = {} THEN Len(input)
               ELSE Min(Occurrences(off, lit)) + Len(lit)
    IN /\ c.err = IF Occurrences(off, lit) = {} THEN EOF ELSE Nil
       /\ c.off = end
       /\ c.out = out \o SubSeq(input, off + 1, end)

C37_Witness ==
  /\ result = "ok"
  /\ input = <<"-", "-", "-">> \o YAMLFence \o <<"a", SQ>>
  /\ delivered = <<"-", "-", "-">> \o YAMLFence \o <<"a", RSQ>>

\* a loop calls the parselet of the rune it peeked
Dispatches == Running /\ Top.pc = "loop" /\ Len(stack') = Len(stack) + 1

\* C31: the cursor never moves back and never leaves the input.  A step that
\* only peeks leaves the offset and the output as they are: a loop that finds
\* a trigger and calls its parselet, which is the parselet of the rune that
\* is read next; inHTMLStartTagName looking at the rune after the attributes;
\* handleHTMLAttributes finding the > ; and any step at the end of the input.
C31_CursorOnlyForward ==
  /\ [](off \in 0..Len(input))
  /\ [][ /\ off' >= off
         /\ Dispatches
              => /\ UNCHANGED <<off, out>>
                 /\ Peeked(DOMAIN whatDo)
                 /\ stack' = Append(stack, Frame(whatDo[RuneAt(off')], "entry"))
         /\ At("inHTMLStartTagName", "afterAttrs") => UNCHANGED <<off, out>>
         /\ (At("handleHTMLAttributes", "loop") /\ Peeked({GT})) => UNCHANGED <<off, out>>
         /\ (Running /\ AtEOF(off)) => UNCHANGED <<off, out>> ]_vars

C31_Witness ==
  /\ result = "ok"
  /\ input = <<"-", "-", DQ, "a">>
  /\ delivered = <<"-", "-", LDQ, "a">>

\* C32: every step leaves what was written in place and at most appends to
\* it, and whenever a parse loop is about to start an iteration as many runes
\* have been written as have been consumed.
C32_OutputInStep ==
  /\ []((Running /\ Top.pc = "loop") => Len(out) = off)
  /\ [][ /\ Len(out') >= Len(out)
         /\ SubSeq(out', 1, Len(out)) = out ]_vars

C32_Witness ==
  /\ At("inSingleQuotes", "loop")
  /\ input = <<DQ, SQ, "a", SQ>>
  /\ off = 3
  /\ out = <<LDQ, LSQ, "a">>

\* C33: Educate never panics: mustReadRune and mustPeekRune are called only
\* with a rune left to read and mustPreviousRune only with something
\* written, also when the input ends right after a quoted attribute value.
C33_NeverPanics == result # "panic"

\* the runes each at* parselet accepts as the one it was called for
OwnTriggers ==
  [ atBackslash |-> {BS}, atDoubleQuote |-> {DQ, LDQ}, atSingleQuote |-> {SQ, LSQ},
    atHyphen |-> {"-"}, atBacktick |-> {BT}, atLessThan |-> {LT} ]

CopiesRemainder ==
  /\ off' = Len(input)
  /\ out' = out \o SubSeq(input, off + 1, Len(input))
  /\ stack' = <<>>
  /\ err' = EOF

\* a backtick that opens a fence: written after a newline, two more follow
OpensFence == out # <<>> /\ Last(out) = NL /\ PeekEquals(off + 1, <<BT, BT>>)

\* the spans whose terminator is missing, fences aside: a code span without
\* a closing backtick, front matter without its closing line, a code element
\* without </code, an end tag without > and a quoted attribute value without
\* its closing quote mark
UnterminatedSpanCopied ==
  /\ (At("atBacktick", "entry") /\ ~OpensFence /\ UnescapedBackticks(off + 1) = {})
       => CopiesRemainder
  /\ (At("atHyphen", "entry") /\ off = 0 /\ PeekEquals(1, <<"-", "-">>)
        /\ Occurrences(1, YAMLFence) = {})
       => CopiesRemainder
  /\ (At("inCodeElement", "entry") /\ Occurrences(off, CodeEndTag) = {})
       => CopiesRemainder
  /\ (At("atLessThan", "entry") /\ PeekEquals(off + 1, <<"/">>)
        /\ Occurrences(off + 1, <<GT>>) = {})
       => CopiesRemainder
  /\ ( /\ At("handleHTMLAttributes", "loop")
       /\ HasAttributeValue(off)
       /\ RuneAt(AttributeValueStart(off)) \in {DQ, SQ}
       /\ UnescapedAfter(AttributeValueStart(off), RuneAt(AttributeValueStart(off))) = {} )
       => CopiesRemainder

\* a fence whose closing line is missing
UnterminatedFenceCopied ==
  (At("atBacktick", "entry") /\ OpensFence /\ Occurrences(off + 1, BacktickFence) = {})
    => CopiesRemainder

\* C35: when the terminator of a code span, fence, front matter, code
\* element, quoted attribute value or end tag does not occur in the rest of
\* the input, the rest of the input is copied unchanged, and Educate delivers
\* the output when the run has ended that way.
C35_UnterminatedSpanDelivered ==
  [][ /\ UnterminatedSpanCopied
      /\ UnterminatedFenceCopied
      /\ (result = "running" /\ stack = <<>> /\ err = EOF)
           => (result' = "ok" /\ delivered' = out) ]_vars

====
